---- MODULE Spec2Model ----
(***************************************************************************)
(* A model of the in-memory task-tracking store (src/src/database.ts), of  *)
(* the delete_tag tool handler with its confirmation step                  *)
(* (src/src/mcp/entities/tag/tools.ts), of the task tool handlers with     *)
(* their input validation, of the handlers that look a record up by id     *)
(* (get_<entity> tools, '<Entity> by ID' resources, get_<entity>_details   *)
(* prompts), of the comment resources and of the completion/complete       *)
(* handler (src/src/mcp/server.ts).                                        *)
(*                                                                         *)
(* Conventions.                                                            *)
(*  - A JavaScript Map is a sequence of records in insertion order, each   *)
(*    record carrying its key in the field id (the store always writes a   *)
(*    record under its own id).                                            *)
(*  - A Date is its time value, a natural number.  null is NULL (<<>>) and *)
(*    a nullable date is <<>> or <<d>>.  undefined is Undefined.  The      *)
(*    string that denotes a date t is <<"iso", t>>.                        *)
(*  - An id is a triple <<prefix, time, token>>: the code builds           *)
(*    `${prefix}-${Date.now()}-${random}`.  The literal ids of the sample  *)
(*    data ('user-1', ...) are written <<prefix, 0, n>>; no generated id   *)
(*    has time 0.                                                          *)
(*  - One store operation runs at one reading of the clock.                *)
(***************************************************************************)
EXTENDS Integers, Sequences, FiniteSets, TLC

VARIABLES
    db,     \* InMemoryDatabase.db: users, projects, tasks, tags, comments
    now,    \* the clock read by Date.now() and new Date()
    calls,  \* the delete_tag invocations: suspended, answered, or returned with a result
    nOps,   \* how many calls of store methods or requests to tools have been made
    pre,    \* history: db as it was before the last operation
    last,   \* history: the last operation, its arguments and what it returned
    issued  \* history: the ids of the records of every store before the last operation

vars == <<db, now, calls, nOps, pre, last, issued>>

(***************************************************************************)
(* Bounds of the model.                                                    *)
(***************************************************************************)
MaxOps == 2      \* direct calls of the store's methods in one run
MaxTicks == 1    \* clock ticks in one run
MaxCalls == 2    \* delete_tag invocations in one run
MaxRequests == 3 \* requests to the server's tools in one run

\* The process starts after every date of the sample data (dates are counted
\* in days from 2023-12-31, so 2024-01-01 is 1 and 2024-02-01 is 32).
StartTime == 40

NULL == <<>>
Undefined == [undefined |-> TRUE]

\* The empty string, where an id or a date string is expected.
EmptyString == <<"", 0, 0>>

(***************************************************************************)
(* JavaScript Map and Array helpers.                                       *)
(***************************************************************************)
Has(m, id) == \E i \in 1..Len(m) : m[i].id = id

MapGet(m, id) ==
    IF Has(m, id) THEN m[CHOOSE i \in 1..Len(m) : m[i].id = id] ELSE Undefined

\* Mutant of MapSet: a key that is taken is not written again.
MapSetIfAbsent(m, id, rec) == IF Has(m, id) THEN m ELSE Append(m, rec)

\* Map.set: an existing key keeps its position, a new key goes last.
MapSet(m, id, rec) ==
    IF Has(m, id)
    THEN [i \in 1..Len(m) |-> IF m[i].id = id THEN rec ELSE m[i]]
    ELSE Append(m, rec)

\* Map.delete: the map without the key (its return value is Has(m, id)).
MapDelete(m, id) == SelectSeq(m, LAMBDA r : r.id # id)

Keys(m) == {m[i].id : i \in 1..Len(m)}

Includes(s, x) == \E i \in 1..Len(s) : s[i] = x

\* Mutant of InsertByCreatedAt: later records go first.
RECURSIVE InsertLatestFirst(_, _)
InsertLatestFirst(sorted, r) ==
    IF sorted = <<>> THEN <<r>>
    ELSE IF Head(sorted).createdAt > r.createdAt
         THEN <<Head(sorted)>> \o InsertLatestFirst(Tail(sorted), r)
         ELSE <<r>> \o sorted

\* Array.prototype.sort with (a, b) => a.createdAt - b.createdAt: stable.
RECURSIVE InsertByCreatedAt(_, _)
InsertByCreatedAt(sorted, r) ==
    IF sorted = <<>> THEN <<r>>
    ELSE IF Head(sorted).createdAt <= r.createdAt
         THEN <<Head(sorted)>> \o InsertByCreatedAt(Tail(sorted), r)
         ELSE <<r>> \o sorted

RECURSIVE SortByCreatedAt(_)
SortByCreatedAt(s) ==
    IF s = <<>> THEN <<>>
    ELSE InsertByCreatedAt(SortByCreatedAt(SubSeq(s, 1, Len(s) - 1)), s[Len(s)])

\* { ...a, ...b }: the fields of b over the fields of a.
Spread(a, b) ==
    [f \in DOMAIN a \cup DOMAIN b |-> IF f \in DOMAIN b THEN b[f] ELSE a[f]]

(***************************************************************************)
(* The sample data.                                                        *)
(***************************************************************************)
User1 == <<"user", 0, 1>>
User2 == <<"user", 0, 2>>
Tag1 == <<"tag", 0, 1>>
Tag2 == <<"tag", 0, 2>>
Tag3 == <<"tag", 0, 3>>
Project1 == <<"project", 0, 1>>
Task1 == <<"task", 0, 1>>
Task2 == <<"task", 0, 2>>
Comment1 == <<"comment", 0, 1>>

initializeSampleData ==
    [users |-> <<
        [id |-> User1, name |-> "Alice Johnson", email |-> "alice@example.com",
         role |-> "admin", createdAt |-> 1, updatedAt |-> 1],
        [id |-> User2, name |-> "Bob Smith", email |-> "bob@example.com",
         role |-> "user", createdAt |-> 2, updatedAt |-> 2] >>,
     tags |-> <<
        [id |-> Tag1, name |-> "frontend", color |-> "#3b82f6", createdAt |-> 1],
        [id |-> Tag2, name |-> "backend", color |-> "#10b981", createdAt |-> 1],
        [id |-> Tag3, name |-> "bug", color |-> "#ef4444", createdAt |-> 1] >>,
     projects |-> <<
        [id |-> Project1, name |-> "Web Application",
         description |-> "Building a modern web application",
         ownerId |-> User1, status |-> "active", createdAt |-> 3, updatedAt |-> 3] >>,
     tasks |-> <<
        [id |-> Task1, title |-> "Design user interface",
         description |-> "Create mockups for the main dashboard",
         projectId |-> Project1, assigneeId |-> User1, status |-> "in-progress",
         priority |-> "high", dueDate |-> <<32>>, tags |-> <<Tag1>>,
         createdAt |-> 5, updatedAt |-> 10],
        [id |-> Task2, title |-> "Fix login bug",
         description |-> "Users cannot log in with email",
         projectId |-> Project1, assigneeId |-> User2, status |-> "todo",
         priority |-> "urgent", dueDate |-> <<20>>, tags |-> <<Tag2, Tag3>>,
         createdAt |-> 8, updatedAt |-> 8] >>,
     comments |-> <<
        [id |-> Comment1, taskId |-> Task1, userId |-> User1,
         content |-> "Working on the design system first",
         createdAt |-> 6, updatedAt |-> 6] >>]

(***************************************************************************)
(* The store.  An operation that changes the store is an operator from a   *)
(* store d (and the clock t) to [db |-> the store after, ret |-> what the  *)
(* method returns].                                                        *)
(***************************************************************************)
newId(prefix, t, token) == <<prefix, t, token>>

\* createUser, createProject, createTask, createComment: the same body.
createStamped(d, coll, prefix, fields, t, token) ==
    LET id == newId(prefix, t, token)
        rec == Spread(fields, [id |-> id, createdAt |-> t, updatedAt |-> t])
    IN  [db |-> [d EXCEPT ![coll] = MapSet(@, id, rec)], ret |-> rec]

createUser(d, user, t, token) == createStamped(d, "users", "user", user, t, token)

createProject(d, project, t, token) ==
    createStamped(d, "projects", "project", project, t, token)

createTask(d, task, t, token) == createStamped(d, "tasks", "task", task, t, token)

createComment(d, comment, t, token) ==
    createStamped(d, "comments", "comment", comment, t, token)

createTag(d, tag, t, token) ==
    LET id == newId("tag", t, token)
        rec == Spread(tag, [id |-> id, createdAt |-> t])
    IN  [db |-> [d EXCEPT !.tags = MapSet(@, id, rec)], ret |-> rec]

getUser(d, id) == MapGet(d.users, id)
getProject(d, id) == MapGet(d.projects, id)
getTask(d, id) == MapGet(d.tasks, id)
getTag(d, id) == MapGet(d.tags, id)
getComment(d, id) == MapGet(d.comments, id)

getTasksByProject(d, projectId) ==
    SelectSeq(d.tasks, LAMBDA t : t.projectId = projectId)

getProjectsByOwner(d, ownerId) ==
    SelectSeq(d.projects, LAMBDA p : p.ownerId = ownerId)

getTasksByAssignee(d, assigneeId) ==
    SelectSeq(d.tasks, LAMBDA t : t.assigneeId = assigneeId)

getTasksByStatus(d, status) == SelectSeq(d.tasks, LAMBDA t : t.status = status)

\* Mutant of getTasksByTag: only the first tag of a task is looked at.
getTasksByFirstTag(d, tagId) ==
    SelectSeq(d.tasks, LAMBDA t : t.tags # <<>> /\ t.tags[1] = tagId)

getTasksByTag(d, tagId) == SelectSeq(d.tasks, LAMBDA t : Includes(t.tags, tagId))

getCommentsByTask(d, taskId) ==
    SortByCreatedAt(SelectSeq(d.comments, LAMBDA c : c.taskId = taskId))

getCommentsByUser(d, userId) ==
    SortByCreatedAt(SelectSeq(d.comments, LAMBDA c : c.userId = userId))

\* Mutant of updateStamped: an update of an unknown id stores the patch as a
\* new record.
upsertStamped(d, coll, id, updates, t) ==
    LET found == MapGet(d[coll], id)
        updated == Spread(Spread(IF found = Undefined THEN [id |-> id] ELSE found,
                                 updates), [updatedAt |-> t])
    IN  [db |-> [d EXCEPT ![coll] = MapSet(@, id, updated)], ret |-> updated]

\* updateUser, updateProject, updateTask, updateComment: the same body.
updateStamped(d, coll, id, updates, t) ==
    LET found == MapGet(d[coll], id)
        updated == Spread(Spread(found, updates), [updatedAt |-> t])
    IN  IF found = Undefined
        THEN [db |-> d, ret |-> NULL]
        ELSE [db |-> [d EXCEPT ![coll] = MapSet(@, id, updated)], ret |-> updated]

updateUser(d, id, updates, t) == updateStamped(d, "users", id, updates, t)

updateProject(d, id, updates, t) == updateStamped(d, "projects", id, updates, t)

updateComment(d, id, updates, t) == updateStamped(d, "comments", id, updates, t)

\* updateTag: no time stamp is written.
updateTag(d, id, updates) ==
    LET tag == MapGet(d.tags, id)
        updated == Spread(tag, updates)
    IN  IF tag = Undefined
        THEN [db |-> d, ret |-> NULL]
        ELSE [db |-> [d EXCEPT !.tags = MapSet(@, id, updated)], ret |-> updated]

\* Mutant of updateTask: the patch replaces the record's fields.
updateTaskReplacing(d, id, updates, t) ==
    LET task == MapGet(d.tasks, id)
        updated == Spread(Spread([id |-> id, createdAt |-> task.createdAt], updates),
                          [updatedAt |-> t])
    IN  IF task = Undefined
        THEN [db |-> d, ret |-> NULL]
        ELSE [db |-> [d EXCEPT !.tasks = MapSet(@, id, updated)], ret |-> updated]

\* Mutant of updateTask: an updatedAt in the patch is kept.
updateTaskPatchLast(d, id, updates, t) ==
    LET task == MapGet(d.tasks, id)
        updated == Spread(Spread(task, [updatedAt |-> t]), updates)
    IN  IF task = Undefined
        THEN [db |-> d, ret |-> NULL]
        ELSE [db |-> [d EXCEPT !.tasks = MapSet(@, id, updated)], ret |-> updated]

updateTask(d, id, updates, t) ==
    LET task == MapGet(d.tasks, id)
        updated == Spread(Spread(task, updates), [updatedAt |-> t])
    IN  IF task = Undefined
        THEN [db |-> d, ret |-> NULL]
        ELSE [db |-> [d EXCEPT !.tasks = MapSet(@, id, updated)], ret |-> updated]

\* Mutant of deleteUser: the user's comments go with the user.
deleteUserAndComments(d, id) ==
    [db |-> [d EXCEPT !.users = MapDelete(@, id),
                      !.comments = SelectSeq(@, LAMBDA c : c.userId # id)],
     ret |-> Has(d.users, id)]

deleteUser(d, id) ==
    [db |-> [d EXCEPT !.users = MapDelete(@, id)], ret |-> Has(d.users, id)]

\* Mutant of deleteComment: the call reports a removal whatever it found.
deleteCommentReportsTrue(d, id) ==
    [db |-> [d EXCEPT !.comments = MapDelete(@, id)], ret |-> TRUE]

deleteComment(d, id) ==
    [db |-> [d EXCEPT !.comments = MapDelete(@, id)], ret |-> Has(d.comments, id)]

\* Mutant of deleteEachComment: the comments are left in the store.
deleteNoComment(d, comments) == d

\* comments.forEach(comment => this.db.comments.delete(comment.id))
RECURSIVE deleteEachComment(_, _)
deleteEachComment(d, comments) ==
    IF comments = <<>> THEN d
    ELSE deleteEachComment([d EXCEPT !.comments = MapDelete(@, Head(comments).id)],
                           Tail(comments))

\* Mutant of deleteTask: the comments of the task are left in the store.
deleteTaskKeepsComments(d, id) ==
    [db |-> [d EXCEPT !.tasks = MapDelete(@, id)], ret |-> Has(d.tasks, id)]

deleteTask(d, id) ==
    LET d1 == deleteEachComment(d, getCommentsByTask(d, id))
    IN  [db |-> [d1 EXCEPT !.tasks = MapDelete(@, id)], ret |-> Has(d1.tasks, id)]

\* Mutant of deleteEachTask: the loop stops after the first task.
deleteFirstTask(d, tasks) ==
    IF tasks = <<>> THEN d ELSE deleteTask(d, Head(tasks).id).db

\* tasks.forEach(task => this.deleteTask(task.id))
RECURSIVE deleteEachTask(_, _)
deleteEachTask(d, tasks) ==
    IF tasks = <<>> THEN d
    ELSE deleteEachTask(deleteTask(d, Head(tasks).id).db, Tail(tasks))

deleteProject(d, id) ==
    LET d1 == deleteEachTask(d, getTasksByProject(d, id))
    IN  [db |-> [d1 EXCEPT !.projects = MapDelete(@, id)], ret |-> Has(d1.projects, id)]

\* Mutant of untagEachTask: a task that carried the tag loses all its tags.
RECURSIVE clearEachTask(_, _, _, _)
clearEachTask(d, tasks, id, t) ==
    IF tasks = <<>> THEN d
    ELSE clearEachTask(updateTask(d, Head(tasks).id, [tags |-> <<>>], t).db,
                       Tail(tasks), id, t)

\* tasks.forEach(task => this.updateTask(task.id, { tags: task.tags.filter(...) }))
RECURSIVE untagEachTask(_, _, _, _)
untagEachTask(d, tasks, id, t) ==
    IF tasks = <<>> THEN d
    ELSE LET task == Head(tasks)
             updatedTags == SelectSeq(task.tags, LAMBDA tagId : tagId # id)
         IN  untagEachTask(updateTask(d, task.id, [tags |-> updatedTags], t).db,
                           Tail(tasks), id, t)

deleteTag(d, id, t) ==
    LET d1 == untagEachTask(d, getTasksByTag(d, id), id, t)
    IN  [db |-> [d1 EXCEPT !.tags = MapDelete(@, id)], ret |-> Has(d1.tags, id)]

(***************************************************************************)
(* The cascades step by step: the stores after each Map.delete of          *)
(* deleteTask and deleteProject, in the order the code makes them.         *)
(***************************************************************************)
\* The last of the stores steps, or d when there is none.
StoreAfter(d, steps) == IF steps = <<>> THEN d ELSE steps[Len(steps)]

\* comments.forEach(comment => this.db.comments.delete(comment.id))
RECURSIVE deleteEachCommentSteps(_, _)
deleteEachCommentSteps(d, comments) ==
    IF comments = <<>> THEN <<>>
    ELSE LET d1 == [d EXCEPT !.comments = MapDelete(@, Head(comments).id)]
         IN  <<d1>> \o deleteEachCommentSteps(d1, Tail(comments))

\* Mutant of deleteTaskSteps: the task is removed first, then its comments.
deleteTaskStepsTaskFirst(d, id) ==
    LET d1 == [d EXCEPT !.tasks = MapDelete(@, id)]
    IN  <<d1>> \o deleteEachCommentSteps(d1, getCommentsByTask(d, id))

deleteTaskSteps(d, id) ==
    LET steps == deleteEachCommentSteps(d, getCommentsByTask(d, id))
    IN  steps \o <<[StoreAfter(d, steps) EXCEPT !.tasks = MapDelete(@, id)]>>

\* tasks.forEach(task => this.deleteTask(task.id))
RECURSIVE deleteEachTaskSteps(_, _)
deleteEachTaskSteps(d, tasks) ==
    IF tasks = <<>> THEN <<>>
    ELSE LET steps == deleteTaskSteps(d, Head(tasks).id)
         IN  steps \o deleteEachTaskSteps(StoreAfter(d, steps), Tail(tasks))

deleteProjectSteps(d, id) ==
    LET steps == deleteEachTaskSteps(d, getTasksByProject(d, id))
    IN  steps \o <<[StoreAfter(d, steps) EXCEPT !.projects = MapDelete(@, id)]>>

(***************************************************************************)
(* Analytics.                                                              *)
(***************************************************************************)
\* counts[key] = (counts[key] || 0) + 1
Tally(counts, key) ==
    [k \in DOMAIN counts \cup {key} |->
        IF k = key
        THEN (IF key \in DOMAIN counts THEN counts[key] ELSE 0) + 1
        ELSE counts[k]]

\* Mutant of IsOverdue: the status is not looked at.
IsPastDue(task, t) == task.dueDate # NULL /\ task.dueDate[1] < t

\* task.dueDate && task.dueDate < now && task.status !== 'done'
IsOverdue(task, t) ==
    task.dueDate # NULL /\ task.dueDate[1] < t /\ task.status # "done"

\* tasks.forEach(task => { ... }) in getTaskStatistics
RECURSIVE tallyEachTask(_, _, _)
tallyEachTask(tasks, acc, t) ==
    IF tasks = <<>> THEN acc
    ELSE LET task == Head(tasks)
         IN  tallyEachTask(Tail(tasks),
                 [byStatus |-> Tally(acc.byStatus, task.status),
                  byPriority |-> Tally(acc.byPriority, task.priority),
                  overdue |-> IF IsOverdue(task, t) THEN acc.overdue + 1
                              ELSE acc.overdue],
                 t)

getTaskStatistics(d, t) ==
    LET acc == tallyEachTask(d.tasks,
                             [byStatus |-> <<>>, byPriority |-> <<>>, overdue |-> 0], t)
    IN  [total |-> Len(d.tasks), byStatus |-> acc.byStatus,
         byPriority |-> acc.byPriority, overdue |-> acc.overdue]

\* Mutant of SetAdd: a value that is in the set is added again.
SetAddAgain(s, x) == Append(s, x)

\* Set.prototype.add on a set kept in insertion order.
SetAdd(s, x) == IF Includes(s, x) THEN s ELSE Append(s, x)

\* tasks.forEach(task => { if (task.assigneeId) assigneeIds.add(task.assigneeId) }):
\* null and the empty string are falsy.
RECURSIVE addEachAssignee(_, _)
addEachAssignee(tasks, assigneeIds) ==
    IF tasks = <<>> THEN assigneeIds
    ELSE LET task == Head(tasks)
         IN  addEachAssignee(Tail(tasks),
                 IF task.assigneeId # NULL /\ task.assigneeId # EmptyString
                 THEN SetAdd(assigneeIds, task.assigneeId)
                 ELSE assigneeIds)

getProjectStatistics(d, projectId) ==
    LET tasks == getTasksByProject(d, projectId)
    IN  [totalTasks |-> Len(tasks),
         completedTasks |-> Len(SelectSeq(tasks, LAMBDA t : t.status = "done")),
         inProgressTasks |-> Len(SelectSeq(tasks, LAMBDA t : t.status = "in-progress")),
         teamMembers |-> addEachAssignee(tasks, <<>>)]

(***************************************************************************)
(* The tool handlers' helpers (utils.ts) and the delete_tag handler.       *)
(***************************************************************************)
createToolResponse(text, isError) ==
    IF isError
    THEN [content |-> <<[type |-> "text", text |-> text]>>, isError |-> TRUE]
    ELSE [content |-> <<[type |-> "text", text |-> text]>>]

\* Date.prototype.toISOString: the string that denotes the date t.
toISOString(t) == <<"iso", t>>

\* JSON.stringify of a record, read as the JSON value it denotes: a Date is
\* written as its ISO string, every other field as it is.
JSONstringify(value) ==
    [f \in DOMAIN value |->
        IF f \in {"createdAt", "updatedAt"} THEN toISOString(value[f])
        ELSE IF f = "dueDate" /\ value[f] # NULL THEN toISOString(value[f][1])
        ELSE value[f]]

\* Mutant of Confirmed: any answer counts as a confirmation.
AnyAnswer(result) == TRUE

\* Mutant of Confirmed: accept counts whatever content.confirm is.
Accepted(result) == result.action = "accept"

\* result.action === 'accept' && result.content?.confirm === true
Confirmed(result) ==
    /\ result.action = "accept"
    /\ "content" \in DOMAIN result
    /\ result.content.confirm = TRUE

\* undefined as the value of a field of a request.  (Undefined is a record,
\* which TLC does not compare with the ids, date strings and lists that a
\* request carries.)
UndefinedField == <<"undefined", 0, 0, 0>>

\* typeof v === 'string', for the values that the model writes as tuples: an
\* id, the empty string and a date string are strings; null, undefined, a
\* number (<<"number", 0, 0, 0, n>>) and an array are not.
IsString(v) == Len(v) \in 1..3

\* z.string(), with .nullable() and .optional(), of a field written as a tuple.
zString(nullable, optional) ==
    [kind |-> "string", nullable |-> nullable, optional |-> optional]

\* z.string() of a field of free text (a TLA+ string: only its presence is
\* checked) and z.enum([...]).
zText == [kind |-> "text", optional |-> FALSE]
zEnum(values) == [kind |-> "enum", values |-> values, optional |-> FALSE]

\* z.array(z.string()).optional(): the model's requests carry only lists of ids.
zArrayOptional == [kind |-> "array", optional |-> TRUE]

\* Mutant of Accepts: a field that is there is accepted whatever its value.
AcceptsPresent(type, input, f) == f \in DOMAIN input \/ type.optional

\* Whether the schema of one field accepts the input's value of the field.
Accepts(type, input, f) ==
    IF f \notin DOMAIN input THEN type.optional
    ELSE CASE type.kind = "text" -> TRUE
           [] type.kind = "enum" -> input[f] \in type.values
           [] type.kind = "array" -> TRUE
           [] type.kind = "string" ->
                \/ IsString(input[f])
                \/ type.nullable /\ input[f] = NULL
                \/ type.optional /\ input[f] = UndefinedField

\* What a handler that throws leaves its caller with.
Thrown(message) == [thrown |-> message]

\* validateInput with a z.object schema: TRUE when safeParse succeeds and the
\* input is returned, FALSE when it throws.
validateInput(schema, input) ==
    \A f \in DOMAIN schema : Accepts(schema[f], input, f)

\* .optional() of a schema.
optional(type) == [type EXCEPT !.optional = TRUE]

createTaskSchema ==
    [title |-> zText, description |-> zText, projectId |-> zString(FALSE, FALSE),
     assigneeId |-> zString(TRUE, TRUE),
     status |-> zEnum({"todo", "in-progress", "review", "done"}),
     priority |-> zEnum({"low", "medium", "high", "urgent"}),
     dueDate |-> zString(TRUE, TRUE), tags |-> zArrayOptional]

updateTaskSchema ==
    [taskId |-> zString(FALSE, FALSE), title |-> optional(zText),
     description |-> optional(zText), assigneeId |-> zString(TRUE, TRUE),
     status |-> optional(zEnum({"todo", "in-progress", "review", "done"})),
     priority |-> optional(zEnum({"low", "medium", "high", "urgent"})),
     dueDate |-> zString(TRUE, TRUE), tags |-> zArrayOptional]

deleteTaskSchema == [taskId |-> zString(FALSE, FALSE)]

\* validated.assigneeId ?? null, validated.tags ?? []: an omitted field is
\* a field the record does not have.
OrElse(args, f, default) == IF f \in DOMAIN args THEN args[f] ELSE default

\* The create_tag handler.
create_tag(d, args, t, token) ==
    LET made == createTag(d, [name |-> args.name, color |-> args.color], t, token)
    IN  [db |-> made.db, ret |-> createToolResponse(JSONstringify(made.ret), FALSE)]

\* new Date(s) of a date string.
newDate(s) == <<s[2]>>

\* The create_task handler (dueDate, when given, is parsed by new Date).
create_task(d, args, t, token) ==
    LET assigneeId == OrElse(args, "assigneeId", NULL)
        dueDate == OrElse(args, "dueDate", NULL)
        made == createTask(d,
                    [title |-> args.title, description |-> args.description,
                     projectId |-> args.projectId,
                     assigneeId |-> IF assigneeId = UndefinedField THEN NULL
                                    ELSE assigneeId,
                     status |-> args.status, priority |-> args.priority,
                     dueDate |-> IF dueDate \in {NULL, UndefinedField, EmptyString}
                                 THEN NULL ELSE newDate(dueDate),
                     tags |-> OrElse(args, "tags", <<>>)], t, token)
    IN  IF ~validateInput(createTaskSchema, args)
        THEN [db |-> d, ret |-> Thrown(<<"Validation failed">>)]
        ELSE [db |-> made.db,
              ret |-> createToolResponse(JSONstringify(made.ret), FALSE)]

\* The get_tag handler.
get_tag(d, args) ==
    LET tag == getTag(d, args.tagId)
    IN  IF tag = Undefined
        THEN createToolResponse(<<"Tag not found">>, TRUE)
        ELSE createToolResponse(JSONstringify(tag), FALSE)

\* The fields S of record r.
Pick(r, S) == [f \in S |-> r[f]]

\* Mutant of update_task: the fields of the request are forwarded as they are.
update_taskUnfiltered(d, args, t) ==
    LET updates == Pick(args, DOMAIN args \ {"taskId"})
        upd == updateTask(d, args.taskId, updates, t)
    IN  [db |-> upd.db,
         ret |-> IF upd.ret = NULL
                 THEN createToolResponse(<<"Task not found">>, TRUE)
                 ELSE createToolResponse(JSONstringify(upd.ret), FALSE)]

\* The update_task handler.  A field the request leaves out is a field args
\* does not have; a field may also be there with the value undefined.
update_task(d, args, t) ==
    LET dueDate == OrElse(args, "dueDate", UndefinedField)
        updates == Pick(args, DOMAIN args \ {"taskId", "dueDate"})
        filteredUpdates ==
            Pick(updates, {f \in DOMAIN updates : updates[f] # UndefinedField})
        forwarded ==
            IF dueDate # UndefinedField
            THEN Spread(filteredUpdates,
                        [dueDate |-> IF dueDate # NULL /\ dueDate # EmptyString
                                     THEN newDate(dueDate) ELSE NULL])
            ELSE filteredUpdates
        upd == updateTask(d, args.taskId, forwarded, t)
    IN  IF ~validateInput(updateTaskSchema, args)
        THEN [db |-> d, ret |-> Thrown(<<"Validation failed">>)]
        ELSE [db |-> upd.db,
              ret |-> IF upd.ret = NULL
                      THEN createToolResponse(<<"Task not found">>, TRUE)
                      ELSE createToolResponse(JSONstringify(upd.ret), FALSE)]

\* The delete_project handler.
delete_project(d, args) ==
    LET del == deleteProject(d, args.projectId)
    IN  [db |-> del.db,
         ret |-> IF ~del.ret
                 THEN createToolResponse(<<"Project not found">>, TRUE)
                 ELSE createToolResponse(
                        JSONstringify([success |-> TRUE,
                                       message |-> <<"Project deleted">>]), FALSE)]

\* The delete_task handler.
delete_task(d, args) ==
    LET del == deleteTask(d, args.taskId)
    IN  IF ~validateInput(deleteTaskSchema, args)
        THEN [db |-> d, ret |-> Thrown(<<"Validation failed">>)]
        ELSE [db |-> del.db,
              ret |-> IF ~del.ret
                      THEN createToolResponse(<<"Task not found">>, TRUE)
                      ELSE createToolResponse(
                             JSONstringify([success |-> TRUE,
                                            message |-> <<"Task deleted">>]), FALSE)]

(***************************************************************************)
(* Input validation (utils.ts) and the handlers that look a record up by   *)
(* its id: the get_<entity> tools, the '<Entity> by ID' resources and the  *)
(* get_<entity>_details prompts.  A handler that throws returns Thrown.    *)
(***************************************************************************)
createPromptMessage(role, text) ==
    [messages |-> <<[role |-> role, content |-> [type |-> "text", text |-> text]]>>]

\* The five entity types: the collection, the name of the id argument and the
\* texts of the handlers.
Entities ==
    [user |-> [coll |-> "users", idField |-> "userId", name |-> "User",
               notFound |-> "User not found", required |-> "User ID is required",
               details |-> "User Details:"],
     project |-> [coll |-> "projects", idField |-> "projectId", name |-> "Project",
                  notFound |-> "Project not found",
                  required |-> "Project ID is required",
                  details |-> "Project Details:"],
     task |-> [coll |-> "tasks", idField |-> "taskId", name |-> "Task",
               notFound |-> "Task not found", required |-> "Task ID is required",
               details |-> "Task Details:"],
     tag |-> [coll |-> "tags", idField |-> "tagId", name |-> "Tag",
              notFound |-> "Tag not found", required |-> "Tag ID is required",
              details |-> "Tag Details:"],
     comment |-> [coll |-> "comments", idField |-> "commentId", name |-> "Comment",
                  notFound |-> "Comment not found",
                  required |-> "Comment ID is required",
                  details |-> "Comment Details:"]]

\* getUserSchema, getProjectSchema, ...: z.object({ <id>: z.string() }).
getByIdSchema(e) == [f \in {Entities[e].idField} |-> zString(FALSE, FALSE)]

\* Mutant of get_entity: a record that is not found is reported as null
\* without the error flag.
get_entityNullResult(d, e, args) ==
    IF ~validateInput(getByIdSchema(e), args)
    THEN Thrown(<<"Validation failed">>)
    ELSE LET found == MapGet(d[Entities[e].coll], args[Entities[e].idField])
         IN  IF found = Undefined
             THEN createToolResponse(NULL, FALSE)
             ELSE createToolResponse(JSONstringify(found), FALSE)

\* The get_user, get_project, get_task, get_tag and get_comment handlers: the
\* same body.
get_entity(d, e, args) ==
    IF ~validateInput(getByIdSchema(e), args)
    THEN Thrown(<<"Validation failed">>)
    ELSE LET found == MapGet(d[Entities[e].coll], args[Entities[e].idField])
         IN  IF found = Undefined
             THEN createToolResponse(<<Entities[e].notFound>>, TRUE)
             ELSE createToolResponse(JSONstringify(found), FALSE)

\* The contents a resource's read callback returns.
resourceContents(uri, json) ==
    [contents |-> <<[uri |-> uri, mimeType |-> "application/json", text |-> json]>>]

\* The read callbacks of 'User by ID', 'Project by ID', 'Task by ID',
\* 'Tag by ID' and 'Comment by ID': the same body.  A variable the URI does
\* not have is a field variables does not have; an array of strings is
\* <<"array", s1, ..., sn>>.
readById(d, e, uri, variables) ==
    LET given == OrElse(variables, Entities[e].idField, UndefinedField)
        isArray == Len(given) > 0 /\ given[1] = "array"
        id == IF isArray
              THEN (IF Len(given) > 1 THEN given[2] ELSE UndefinedField)
              ELSE given
        found == MapGet(d[Entities[e].coll], id)
    IN  IF id = UndefinedField \/ id = EmptyString \/ ~IsString(id)
        THEN resourceContents(uri, [error |-> Entities[e].required])
        ELSE IF found = Undefined
             THEN resourceContents(uri, [error |-> Entities[e].notFound])
             ELSE resourceContents(uri, JSONstringify(found))

\* The get_user_details, get_project_details, get_task_details,
\* get_tag_details and get_comment_details handlers.  Of the text for a
\* record that is found, its heading and its 'ID:' line are modelled; the
\* lines after them list the record's other fields.
get_entity_details(d, e, args) ==
    IF ~validateInput(getByIdSchema(e), args)
    THEN Thrown(<<"Validation failed">>)
    ELSE LET id == args[Entities[e].idField]
             found == MapGet(d[Entities[e].coll], id)
         IN  IF found = Undefined
             THEN createPromptMessage("user",
                      <<Entities[e].name, "with ID", id, "not found.">>)
             ELSE createPromptMessage("user", <<Entities[e].details, "ID:", found.id>>)

\* tasks.forEach(task => allComments.push(...db.getCommentsByTask(task.id)))
RECURSIVE pushEachTaskComments(_, _)
pushEachTaskComments(d, tasks) ==
    IF tasks = <<>> THEN <<>>
    ELSE getCommentsByTask(d, Head(tasks).id) \o pushEachTaskComments(d, Tail(tasks))

\* The comment resources: what the read callback of 'All Comments' and the
\* list and complete callbacks of 'Comment by ID' return.
commentResources(d) ==
    LET allComments == pushEachTaskComments(d, d.tasks)
    IN  [read |->
            resourceContents(<<"comment-manager://comments">>,
                [i \in 1..Len(allComments) |-> JSONstringify(allComments[i])]),
         list |->
            [resources |->
                [i \in 1..Len(allComments) |->
                    [uri |-> <<"comment-manager://comments/", allComments[i].id>>,
                     name |-> <<"Comment on task", allComments[i].taskId>>,
                     description |-> <<"Comment by user", allComments[i].userId,
                                       allComments[i].content>>,
                     mimeType |-> "application/json"]]],
         complete |-> [i \in 1..Len(allComments) |-> allComments[i].id]]

(***************************************************************************)
(* The completion/complete handler (server.ts).  Where the characters of   *)
(* an id matter, a string is the sequence of its characters.               *)
(***************************************************************************)
\* The characters of an id: `${prefix}-${Date.now()}-${random}`, or
\* 'user-1' for <<"user", 0, 1>>.  The random part is written as a number.
idString(id) ==
    LET digit == <<"1", "2", "3", "4", "5", "6", "7", "8", "9">>
        digits(n) == IF n = 0 THEN <<"0">>
                     ELSE IF n < 10 THEN <<digit[n]>>
                     ELSE <<digit[n \div 10],
                            IF n % 10 = 0 THEN "0" ELSE digit[n % 10]>>
        prefix == [user |-> <<"u", "s", "e", "r">>]
    IN  IF id[2] = 0
        THEN prefix[id[1]] \o <<"-">> \o digits(id[3])
        ELSE prefix[id[1]] \o <<"-">> \o digits(id[2]) \o <<"-">> \o digits(id[3])

\* Mutant of toLowerCase: the string as it is.
keepCase(s) == s

\* String.prototype.toLowerCase, on the letters that the model's strings have.
toLowerCase(s) ==
    LET lower == [U |-> "u", S |-> "s", E |-> "e", R |-> "r", X |-> "x"]
    IN  [i \in 1..Len(s) |-> IF s[i] \in DOMAIN lower THEN lower[s[i]] ELSE s[i]]

\* String.prototype.startsWith
startsWith(s, searchString) ==
    /\ Len(searchString) <= Len(s)
    /\ SubSeq(s, 1, Len(searchString)) = searchString

\* The handler of completion/complete requests.  The values are the ids, as
\* the store holds them.
complete(d, params) ==
    LET partialUserId == params.argument.value
        matching == SelectSeq(d.users,
                        LAMBDA user : startsWith(toLowerCase(idString(user.id)),
                                                 toLowerCase(partialUserId)))
    IN  IF /\ params.ref.type = "ref/prompt"
           /\ params.ref.name = "get_user_details"
           /\ params.argument.name = "userId"
        THEN [completion |-> [values |-> [i \in 1..Len(matching) |-> matching[i].id],
                              hasMore |-> FALSE]]
        ELSE [completion |-> [values |-> <<>>, hasMore |-> FALSE]]

\* Mutant of deleteTagBegin: the tag record is removed before the confirmation
\* is asked for.
deleteTagBeginEager(d, args) ==
    LET tag == getTag(d, args.tagId)
    IN  [db |-> [d EXCEPT !.tags = MapDelete(@, args.tagId)],
         ret |-> IF tag = Undefined
                 THEN [pc |-> "returned", tagId |-> args.tagId,
                       result |-> createToolResponse(<<"Tag not found">>, TRUE)]
                 ELSE [pc |-> "elicit", tagId |-> args.tagId, tag |-> tag]]

\* Mutant of deleteTagBegin: the confirmation is asked for whether or not the
\* tag was found.
deleteTagBeginAlwaysAsks(d, args) ==
    [db |-> d,
     ret |-> [pc |-> "elicit", tagId |-> args.tagId, tag |-> getTag(d, args.tagId)]]

\* delete_tag up to its await: the tag is looked up; without it the handler
\* returns at once, with it the confirmation request is issued and the
\* handler is suspended holding the tag it found.  ret is the invocation.
deleteTagBegin(d, args) ==
    LET tag == getTag(d, args.tagId)
    IN  [db |-> d,
         ret |-> IF tag = Undefined
                 THEN [pc |-> "returned", tagId |-> args.tagId,
                       result |-> createToolResponse(<<"Tag not found">>, TRUE)]
                 ELSE [pc |-> "elicit", tagId |-> args.tagId, tag |-> tag]]

\* Mutant of notDeletedMessage: one message for every answer.
alwaysCancelledMessage(result) == <<"Tag deletion cancelled">>

\* result.action === 'decline' ? 'Tag deletion declined by user' : 'Tag deletion cancelled'
notDeletedMessage(result) ==
    IF result.action = "decline"
    THEN <<"Tag deletion declined by user">>
    ELSE <<"Tag deletion cancelled">>

\* Mutant of deleteTagResume: what deleteTag returned is not looked at.
deleteTagResumeUnchecked(d, call, result, t) ==
    IF Confirmed(result)
    THEN [db |-> deleteTag(d, call.tagId, t).db,
          ret |-> createToolResponse(
                    JSONstringify(
                      [success |-> TRUE,
                       message |-> <<"Tag", call.tag.name, "deleted successfully">>]),
                    FALSE)]
    ELSE [db |-> d,
          ret |-> createToolResponse(
                    JSONstringify(
                      [success |-> FALSE, message |-> notDeletedMessage(result)]),
                    FALSE)]

\* delete_tag after its await, resumed with the confirmation's result.
deleteTagResume(d, call, result, t) ==
    IF Confirmed(result)
    THEN LET del == deleteTag(d, call.tagId, t)
         IN  [db |-> del.db,
              ret |-> IF ~del.ret
                      THEN createToolResponse(<<"Tag deletion failed">>, TRUE)
                      ELSE createToolResponse(
                             JSONstringify(
                               [success |-> TRUE,
                                message |-> <<"Tag", call.tag.name,
                                              "deleted successfully">>]),
                             FALSE)]
    ELSE [db |-> d,
          ret |-> createToolResponse(
                    JSONstringify(
                      [success |-> FALSE, message |-> notDeletedMessage(result)]),
                    FALSE)]

(***************************************************************************)
(* The inputs the operations are tried on.                                 *)
(***************************************************************************)
\* Ids that never name a record ('non-existent').
Ghost(prefix) == <<prefix, 0, 0>>

UserRefs == Keys(db.users) \cup {User1, Ghost("user")}
ProjectRefs == Keys(db.projects) \cup {Project1, Ghost("project")}
TaskRefs == Keys(db.tasks) \cup {Task1, Ghost("task")}
TagRefs == Keys(db.tags) \cup {Tag1, Tag3}
CommentRefs == Keys(db.comments) \cup {Comment1}

\* Patches of the update methods: Partial<Omit<E, 'id' | 'createdAt'>>.  The
\* patch with no field is <<>>.
UserPatches == {[role |-> "admin"], [name |-> "Robert", email |-> "rob@example.com"]}

ProjectPatches == {[status |-> "completed"], [ownerId |-> User2, updatedAt |-> 1]}

TaskPatches ==
    {[status |-> "done"], [dueDate |-> <<StartTime + 1>>],
     [assigneeId |-> EmptyString], [assigneeId |-> User1, updatedAt |-> 1],
     [assigneeId |-> NULL, priority |-> "high"]}

TagPatches == {[color |-> "#000000"]}

CommentPatches == {<<>>, [userId |-> User2, content |-> "Done"]}

UserInputs == [name : {"Carol"}, email : {"carol@example.com"}, role : {"viewer"}]

ProjectInputs ==
    [name : {"Mobile"}, description : {"An app"}, ownerId : {User1, Ghost("user")},
     status : {"active"}]

TagLists == {<<>>, <<Tag3, Tag1, Tag3>>} \cup {<<g>> : g \in Keys(db.tags) \ {Tag1, Tag2, Tag3}}

TaskInputs ==
    [title : {"Write docs"}, description : {"All of them"}, projectId : ProjectRefs,
     assigneeId : {NULL, User2}, status : {"todo"}, priority : {"low"},
     dueDate : {NULL}, tags : TagLists]

TagInputs == [name : {"docs"}, color : {"#ff0000"}]

CommentInputs == [taskId : TaskRefs, userId : {User1}, content : {"Looks good"}]

\* Arguments of a create_task request: the optional fields left out, or tags given.
CreateTaskArgs ==
    LET required == [title |-> "Triage", description |-> "Sort the reports",
                     projectId |-> Project1, status |-> "todo", priority |-> "medium"]
    IN  {required} \cup {Spread(required, [tags |-> tags, assigneeId |-> NULL]) :
                           tags \in TagLists \ {<<>>}}

\* Arguments of a delete_tag request: a tag of the sample data that a task
\* carries, the tags made since, and an id that names no tag.
DeleteTagArgs ==
    [tagId : (Keys(db.tags) \ {Tag1, Tag2}) \cup {Tag3, Ghost("tag")}]

\* Arguments of an update_task request: on a task of the sample data, each
\* optional field left out, undefined, null or given; and on no task.
UpdateTaskArgs ==
    {[taskId |-> Ghost("task")],
     [taskId |-> Task1],
     [taskId |-> Task1, assigneeId |-> NULL],
     [taskId |-> Task1, dueDate |-> NULL],
     [taskId |-> Task1, dueDate |-> toISOString(StartTime + 10)],
     [taskId |-> Task1, assigneeId |-> UndefinedField, dueDate |-> UndefinedField,
      tags |-> <<Tag2>>],
     [taskId |-> Task1, assigneeId |-> User2, dueDate |-> EmptyString]}

DeleteProjectArgs == [projectId : {Project1}]

DeleteTaskArgs == [taskId : {Task2}]

\* The arguments { <id>: id } of a lookup of entity type e.
IdArgs(e, id) == [f \in {Entities[e].idField} |-> id]

\* The ids a lookup of entity type e is tried on: those of the stored records,
\* those of records that were stored, one that names no record and the empty
\* string.
LookupIds(e) ==
    Keys(db[Entities[e].coll])
        \cup {id \in issued : id[1] = e}
        \cup {Ghost(e), EmptyString}

\* The variables of the URI of a read of '<Entity> by ID': the id, an array
\* of ids, an empty array, or no variable.
LookupVariables(e) ==
    {IdArgs(e, id) : id \in LookupIds(e)}
        \cup {IdArgs(e, <<"array", id>>) : id \in Keys(db[Entities[e].coll])}
        \cup {IdArgs(e, <<"array">>), <<>>}

\* Requests that the schema of their tool does not accept: a required field
\* left out, null or a number where a string is expected, a value outside
\* an enumeration.
InvalidArgs ==
    LET required == [title |-> "Triage", description |-> "Sort the reports",
                     projectId |-> Project1, status |-> "todo", priority |-> "medium"]
    IN  [create_task |->
            {Pick(required, DOMAIN required \ {"projectId"}),
             Spread(required, [status |-> "bogus"]),
             Spread(required, [projectId |-> NULL]),
             Spread(required, [assigneeId |-> <<"number", 0, 0, 0, 7>>, tags |-> <<Tag1>>])},
         update_task |->
            {[status |-> "done"],
             [taskId |-> Task1, priority |-> "asap", assigneeId |-> NULL],
             [taskId |-> NULL, status |-> "done"]},
         delete_task |-> {<<>>, [taskId |-> <<"number", 0, 0, 0, 1>>], [taskId |-> NULL]}]

\* What is typed for the userId argument: nothing, 'USER-', 'user-1',
\* 'ser-1', 'user-1x', the first six characters of a stored user's id, and
\* the id of a user that is or was stored.
TypedValues ==
    {<<>>, <<"U", "S", "E", "R", "-">>, <<"u", "s", "e", "r", "-", "1">>,
     <<"s", "e", "r", "-", "1">>, <<"u", "s", "e", "r", "-", "1", "x">>}
        \cup {SubSeq(idString(id), 1, 6) : id \in Keys(db.users)}
        \cup {idString(id) : id \in Keys(db.users) \cup {i \in issued : i[1] = "user"}}

\* The parameters of a completion/complete request: for the userId argument
\* of get_user_details, for its other argument names, and for a resource.
CompletionParams ==
    {[ref |-> [type |-> "ref/prompt", name |-> "get_user_details"],
      argument |-> [name |-> "userId", value |-> value]] : value \in TypedValues}
        \cup {[ref |-> [type |-> "ref/prompt", name |-> "get_user_details"],
               argument |-> [name |-> "name", value |-> <<>>]],
              [ref |-> [type |-> "ref/resource", name |-> "get_user_details"],
               argument |-> [name |-> "userId", value |-> <<>>]]}

\* The random part of a generated id, Math.random().toString(36).substring(2, 11),
\* up to renaming: a token no id of the run carries yet, or the token of a
\* record of the same collection made at the same reading of the clock.
Tokens(m) == {nOps + 1} \cup {m[i].id[3] : i \in {j \in 1..Len(m) : m[j].id[2] = now}}

ElicitResults ==
    {[action |-> "accept", content |-> [confirm |-> TRUE]],
     [action |-> "accept", content |-> [confirm |-> FALSE]],
     [action |-> "accept"],
     [action |-> "decline"],
     [action |-> "cancel"]}

(***************************************************************************)
(* The state machine.                                                      *)
(***************************************************************************)
\* Mutant of Init: the sample data is not loaded.
InitEmpty ==
    /\ db = [users |-> <<>>, tags |-> <<>>, projects |-> <<>>, tasks |-> <<>>,
             comments |-> <<>>]
    /\ now = StartTime
    /\ calls = <<>>
    /\ nOps = 0
    /\ pre = db
    /\ last = [op |-> "init", args |-> <<>>, ret |-> Undefined]
    /\ issued = {}

Init ==
    /\ db = initializeSampleData
    /\ now = StartTime
    /\ calls = <<>>
    /\ nOps = 0
    /\ pre = initializeSampleData
    /\ last = [op |-> "init", args |-> <<>>, ret |-> Undefined]
    /\ issued = {}

\* The ids of all records of store d.
AllIds(d) ==
    Keys(d.users) \cup Keys(d.projects) \cup Keys(d.tasks) \cup Keys(d.tags)
        \cup Keys(d.comments)

\* An operation ran: r is [db, ret].
Ran(op, args, r) ==
    /\ db' = r.db
    /\ pre' = db
    /\ last' = [op |-> op, args |-> args, ret |-> r.ret]
    /\ issued' = issued \cup AllIds(db)

\* A method of the store is called directly.
Called(op, args, r) ==
    /\ nOps < MaxOps
    /\ nOps' = nOps + 1
    /\ Ran(op, args, r)
    /\ UNCHANGED <<now, calls>>

\* A request is handled by its tool.
Requested(op, args, r) ==
    /\ nOps < MaxRequests
    /\ nOps' = nOps + 1
    /\ Ran(op, args, r)
    /\ UNCHANGED <<now, calls>>

Tick ==
    /\ now < StartTime + MaxTicks
    /\ now' = now + 1
    /\ Ran("tick", <<>>, [db |-> db, ret |-> Undefined])
    /\ UNCHANGED <<calls, nOps>>

CreateUser ==
    \E user \in UserInputs, token \in Tokens(db.users) :
        Called("createUser", <<user>>, createUser(db, user, now, token))

CreateProject ==
    \E project \in ProjectInputs, token \in Tokens(db.projects) :
        Called("createProject", <<project>>, createProject(db, project, now, token))

CreateTask ==
    \E task \in TaskInputs, token \in Tokens(db.tasks) :
        Called("createTask", <<task>>, createTask(db, task, now, token))

CreateTag ==
    \E tag \in TagInputs, token \in Tokens(db.tags) :
        Called("createTag", <<tag>>, createTag(db, tag, now, token))

CreateComment ==
    \E comment \in CommentInputs, token \in Tokens(db.comments) :
        Called("createComment", <<comment>>, createComment(db, comment, now, token))

DeleteUser == \E id \in UserRefs : Called("deleteUser", <<id>>, deleteUser(db, id))

DeleteProject ==
    \E id \in ProjectRefs : Called("deleteProject", <<id>>, deleteProject(db, id))

DeleteTask == \E id \in TaskRefs : Called("deleteTask", <<id>>, deleteTask(db, id))

DeleteComment ==
    \E id \in CommentRefs : Called("deleteComment", <<id>>, deleteComment(db, id))

DeleteTag == \E id \in TagRefs : Called("deleteTag", <<id>>, deleteTag(db, id, now))

UpdateUser ==
    \E id \in {User2, Ghost("user")}, updates \in UserPatches :
        Called("updateUser", <<id, updates>>, updateUser(db, id, updates, now))

UpdateProject ==
    \E id \in {Project1, Ghost("project")}, updates \in ProjectPatches :
        Called("updateProject", <<id, updates>>, updateProject(db, id, updates, now))

UpdateTask ==
    \E id \in TaskRefs, updates \in TaskPatches :
        Called("updateTask", <<id, updates>>, updateTask(db, id, updates, now))

UpdateTag ==
    \E id \in {Tag1, Ghost("tag")}, updates \in TagPatches :
        Called("updateTag", <<id, updates>>, updateTag(db, id, updates))

UpdateComment ==
    \E id \in CommentRefs \cup {Ghost("comment")}, updates \in CommentPatches :
        Called("updateComment", <<id, updates>>, updateComment(db, id, updates, now))

\* createTask is called with the projectId of a stored project.
CreateTaskInProject ==
    \E task \in TaskInputs, token \in Tokens(db.tasks) :
        /\ Has(db.projects, task.projectId)
        /\ Called("createTask", <<task>>, createTask(db, task, now, token))

\* createComment is called with the taskId of a stored task.
CreateCommentOnTask ==
    \E comment \in CommentInputs, token \in Tokens(db.comments) :
        /\ Has(db.tasks, comment.taskId)
        /\ Called("createComment", <<comment>>,
                  createComment(db, comment, now, token))

\* A create_tag request is handled.
CreateTagTool ==
    \E args \in TagInputs, token \in Tokens(db.tags) :
        Requested("create_tag", <<args>>, create_tag(db, args, now, token))

\* A create_task request is handled.
CreateTaskTool ==
    \E args \in CreateTaskArgs, token \in Tokens(db.tasks) :
        Requested("create_task", <<args>>, create_task(db, args, now, token))

\* An update_task request is handled.
UpdateTaskTool ==
    \E args \in UpdateTaskArgs :
        Requested("update_task", <<args>>, update_task(db, args, now))

\* A delete_project request is handled.
DeleteProjectTool ==
    \E args \in DeleteProjectArgs :
        Requested("delete_project", <<args>>, delete_project(db, args))

\* A delete_task request is handled.
DeleteTaskTool ==
    \E args \in DeleteTaskArgs : Requested("delete_task", <<args>>, delete_task(db, args))

\* A handler that reads the store answers a request.
Answers(op, args, ret) ==
    /\ nOps < MaxOps
    /\ nOps' = nOps + 1
    /\ Ran(op, args, [db |-> db, ret |-> ret])
    /\ UNCHANGED <<now, calls>>

\* A get_<entity> request is handled.
GetEntityTool ==
    \E e \in DOMAIN Entities : \E id \in LookupIds(e) :
        Answers("get_entity", <<e, IdArgs(e, id)>>, get_entity(db, e, IdArgs(e, id)))

\* A read of an '<Entity> by ID' resource is handled.
ReadById ==
    \E e \in DOMAIN Entities : \E variables \in LookupVariables(e) :
        Answers("read_by_id", <<e, variables>>,
                readById(db, e, <<e, variables>>, variables))

\* A get_<entity>_details request is handled.
GetEntityDetails ==
    \E e \in DOMAIN Entities : \E id \in LookupIds(e) :
        Answers("get_entity_details", <<e, IdArgs(e, id)>>,
                get_entity_details(db, e, IdArgs(e, id)))

\* A request that its tool's schema does not accept is handled.
InvalidRequest ==
    \E tool \in DOMAIN InvalidArgs : \E args \in InvalidArgs[tool] :
        \E token \in Tokens(db.tasks) :
            Requested(tool, <<args>>,
                      CASE tool = "create_task" -> create_task(db, args, now, token)
                        [] tool = "update_task" -> update_task(db, args, now)
                        [] tool = "delete_task" -> delete_task(db, args))

\* A completion/complete request is handled.
Complete ==
    \E params \in CompletionParams :
        Answers("complete", <<params>>, complete(db, params))

\* The comment resources are read, listed and asked for completions.
ReadComments == Answers("comment_resources", <<>>, commentResources(db))

\* A delete_tag request arrives and its handler runs up to the await.
DeleteTagCall ==
    /\ Len(calls) < MaxCalls
    /\ nOps < MaxRequests
    /\ nOps' = nOps + 1
    /\ \E args \in DeleteTagArgs :
          LET r == deleteTagBegin(db, args)
          IN  /\ calls' = Append(calls, r.ret)
              /\ Ran("delete_tag", <<Len(calls) + 1, args>>, r)
    /\ UNCHANGED now

\* The answer to a confirmation request arrives; its handler runs to the end.
ElicitResponse ==
    /\ \E i \in 1..Len(calls), result \in ElicitResults :
          /\ calls[i].pc = "elicit"
          /\ LET r == deleteTagResume(db, calls[i], result, now)
             IN  /\ calls' = [calls EXCEPT ![i] =
                                [pc |-> "returned", tagId |-> calls[i].tagId,
                                 result |-> r.ret]]
                 /\ Ran("elicit_response", <<i, result>>, r)
    /\ UNCHANGED <<now, nOps>>

\* Mutant of HandlerResume: the handler goes on only after an accept.
HandlerResumeOnAccept ==
    /\ \E i \in 1..Len(calls) :
          /\ calls[i].pc = "answered"
          /\ calls[i].answer.action = "accept"
          /\ LET r == deleteTagResume(db, calls[i], calls[i].answer, now)
             IN  /\ calls' = [calls EXCEPT ![i] =
                                [pc |-> "returned", tagId |-> calls[i].tagId,
                                 result |-> r.ret]]
                 /\ Ran("elicit_response", <<i, calls[i].answer>>, r)
    /\ UNCHANGED <<now, nOps>>

\* The answer to a confirmation request is delivered: the promise the
\* handler awaits is settled with it.  The handler has not gone on yet.
ElicitDeliver ==
    /\ \E i \in 1..Len(calls), result \in ElicitResults :
          /\ calls[i].pc = "elicit"
          /\ calls' = [calls EXCEPT ![i] =
                         [pc |-> "answered", tagId |-> calls[i].tagId,
                          tag |-> calls[i].tag, answer |-> result]]
          /\ Ran("elicit_deliver", <<i, result>>, [db |-> db, ret |-> Undefined])
    /\ UNCHANGED <<now, nOps>>

\* A handler whose confirmation request was answered goes on after its await
\* and runs to its end.
HandlerResume ==
    /\ UNCHANGED <<now, nOps>>
    /\ \E i \in 1..Len(calls) :
          /\ calls[i].pc = "answered"
          /\ LET r == deleteTagResume(db, calls[i], calls[i].answer, now)
             IN  /\ calls' = [calls EXCEPT ![i] =
                                [pc |-> "returned", tagId |-> calls[i].tagId,
                                 result |-> r.ret]]
                 /\ Ran("elicit_response", <<i, calls[i].answer>>, r)

\* The store, its methods called directly.
Next ==
    \/ Tick
    \/ CreateUser \/ CreateProject \/ CreateTask \/ CreateTag \/ CreateComment
    \/ DeleteUser \/ DeleteProject \/ DeleteTask \/ DeleteComment \/ DeleteTag

Spec == Init /\ [][Next]_vars

\* The store, its update methods called directly on the sample data and on
\* the comments made since.
UpdateNext ==
    \/ Tick
    \/ CreateComment \/ DeleteTask
    \/ UpdateUser \/ UpdateProject \/ UpdateTask \/ UpdateTag \/ UpdateComment

UpdateSpec == Init /\ [][UpdateNext]_vars

\* The server: delete_tag requests and the answers to their confirmation
\* requests, among requests that create tags and tasks and delete tasks and
\* projects.
ToolNext ==
    \/ Tick
    \/ DeleteTagCall \/ ElicitResponse
    \/ CreateTagTool \/ CreateTaskTool
    \/ DeleteTaskTool \/ DeleteProjectTool

ToolSpec == Init /\ [][ToolNext]_vars

\* The server: delete_tag requests, the delivery of the answers to their
\* confirmation requests and the handlers going on after it, among requests
\* that delete tasks.  A handler whose awaited promise is
\* settled is resumed by the event loop: the resumption is weakly fair.
SuspensionNext ==
    \/ DeleteTagCall \/ ElicitDeliver \/ HandlerResume
    \/ DeleteTaskTool

SuspensionSpec == Init /\ [][SuspensionNext]_vars /\ WF_vars(HandlerResume)

\* The server: requests that create, update and delete tasks.
TaskToolNext == Tick \/ CreateTaskTool \/ UpdateTaskTool \/ DeleteTaskTool

TaskToolSpec == Init /\ [][TaskToolNext]_vars

\* The server: requests to the task tools, valid and invalid.
ValidationNext ==
    Tick \/ CreateTaskTool \/ UpdateTaskTool \/ DeleteTaskTool \/ InvalidRequest

ValidationSpec == Init /\ [][ValidationNext]_vars

\* The store, its methods called by callers that name only stored projects
\* and tasks when they create a task or a comment and that leave projectId
\* and taskId alone when they update.
IntegrityNext ==
    \/ Tick
    \/ CreateProject \/ CreateTaskInProject \/ CreateCommentOnTask
    \/ UpdateTask \/ UpdateComment
    \/ DeleteProject \/ DeleteTask \/ DeleteComment

IntegritySpec == Init /\ [][IntegrityNext]_vars

\* The server: requests that look records up, among calls that create and
\* delete users, comments and tasks.
LookupNext ==
    \/ CreateUser \/ DeleteUser \/ CreateComment \/ DeleteTask
    \/ GetEntityTool \/ ReadById \/ GetEntityDetails
    \/ Complete \/ ReadComments

LookupSpec == Init /\ [][LookupNext]_vars

(***************************************************************************)
(* Properties of the store.  In each, the operation that ran last is       *)
(* last.op, its arguments last.args, what it returned last.ret, and the    *)
(* store it ran on is pre.                                                 *)
(***************************************************************************)
Records(m) == {m[i] : i \in 1..Len(m)}

\* C1: deleteProject(P) on an existing project P returns true and removes P,
\* every task whose projectId is P and every comment of one of those tasks:
\* getProject, getTask and getComment find none of them afterwards.
C1_DeleteProjectCascades ==
    (last.op = "deleteProject" /\ Has(pre.projects, last.args[1])) =>
        LET P == last.args[1]
            gone == {t.id : t \in {x \in Records(pre.tasks) : x.projectId = P}}
        IN  /\ last.ret = TRUE
            /\ getProject(db, P) = Undefined
            /\ \A T \in gone : getTask(db, T) = Undefined
            /\ \A c \in Records(pre.comments) :
                  c.taskId \in gone => getComment(db, c.id) = Undefined

\* A project with two tasks, one of them commented, was deleted, and a task
\* of no such project is still there.
C1_Witness ==
    /\ last.op = "deleteProject"
    /\ last.ret = TRUE
    /\ Cardinality({t \in Records(pre.tasks) : t.projectId = last.args[1]}) = 2
    /\ \E c \in Records(pre.comments) :
          /\ getTask(pre, c.taskId) # Undefined
          /\ getTask(pre, c.taskId).projectId = last.args[1]
          /\ getComment(db, c.id) = Undefined
    /\ db.tasks # <<>>

\* C2: deleteTask(T) on an existing task T returns true, removes T and exactly
\* the comments whose taskId is T, and leaves every other task and every
\* other comment as it was.
C2_DeleteTaskCascades ==
    (last.op = "deleteTask" /\ Has(pre.tasks, last.args[1])) =>
        LET T == last.args[1]
        IN  /\ last.ret = TRUE
            /\ db.tasks = SelectSeq(pre.tasks, LAMBDA t : t.id # T)
            /\ db.comments = SelectSeq(pre.comments, LAMBDA c : c.taskId # T)

\* A commented task was deleted while another task keeps its comment.
C2_Witness ==
    /\ last.op = "deleteTask"
    /\ last.ret = TRUE
    /\ \E c \in Records(pre.comments) : c.taskId = last.args[1]
    /\ \E c \in Records(db.comments) : getTask(db, c.taskId) # Undefined

\* What deleteTag(G) on an existing tag does apart from the time stamps: G
\* leaves the tags, no task is deleted, a task that carried G keeps its other
\* fields and its other tag ids, a task that did not is unchanged, and
\* getTasksByTag(G) is empty.
DeleteTagEffect(G) ==
    /\ last.ret = TRUE
    /\ db.tags = SelectSeq(pre.tags, LAMBDA g : g.id # G)
    /\ Len(db.tasks) = Len(pre.tasks)
    /\ \A i \in 1..Len(pre.tasks) :
          LET old == pre.tasks[i]
              new == db.tasks[i]
          IN  IF Includes(old.tags, G)
              THEN /\ \A f \in DOMAIN old \ {"tags", "updatedAt"} : new[f] = old[f]
                   /\ DOMAIN new = DOMAIN old
                   /\ new.tags = SelectSeq(old.tags, LAMBDA g : g # G)
              ELSE new = old
    /\ getTasksByTag(db, G) = <<>>

DeleteTagRan == last.op = "deleteTag" /\ Has(pre.tags, last.args[1])

\* C3 as stated: besides DeleteTagEffect, the updatedAt of every task that
\* carried G advances (is later than it was).
C3_UpdatedAtAdvances ==
    DeleteTagRan =>
        /\ DeleteTagEffect(last.args[1])
        /\ \A i \in 1..Len(pre.tasks) :
              Includes(pre.tasks[i].tags, last.args[1]) =>
                  db.tasks[i].updatedAt > pre.tasks[i].updatedAt

\* C3 as amended: besides DeleteTagEffect, the updatedAt of every task that
\* carried G is the time of the call, which is not earlier than it was.
C3_UpdatedAtIsNow ==
    DeleteTagRan =>
        /\ DeleteTagEffect(last.args[1])
        /\ \A i \in 1..Len(pre.tasks) :
              Includes(pre.tasks[i].tags, last.args[1]) =>
                  /\ db.tasks[i].updatedAt = now
                  /\ db.tasks[i].updatedAt >= pre.tasks[i].updatedAt

\* A tag was deleted that a task carried (twice, among another tag) at the
\* very time the task was made, while another task did not carry it.
C3_Witness ==
    /\ DeleteTagRan
    /\ \E i \in 1..Len(pre.tasks) :
          /\ Includes(pre.tasks[i].tags, last.args[1])
          /\ Len(db.tasks[i].tags) > 0
          /\ Len(pre.tasks[i].tags) = Len(db.tasks[i].tags) + 2
          /\ pre.tasks[i].updatedAt = now
    /\ \E i \in 1..Len(pre.tasks) : ~Includes(pre.tasks[i].tags, last.args[1])

\* C4: deleteUser(U) removes the user record and nothing else: the projects,
\* tasks, tags and comments are unchanged, so those that name U keep that id.
C4_DeleteUserNoCascade ==
    last.op = "deleteUser" =>
        LET U == last.args[1]
        IN  /\ db.users = SelectSeq(pre.users, LAMBDA u : u.id # U)
            /\ db.projects = pre.projects
            /\ db.tasks = pre.tasks
            /\ db.tags = pre.tags
            /\ db.comments = pre.comments

\* A user was deleted whom a project, a task and a comment still name.
C4_Witness ==
    /\ last.op = "deleteUser"
    /\ last.ret = TRUE
    /\ getUser(db, last.args[1]) = Undefined
    /\ \E p \in Records(db.projects) : p.ownerId = last.args[1]
    /\ \E t \in Records(db.tasks) : t.assigneeId = last.args[1]
    /\ \E c \in Records(db.comments) : c.userId = last.args[1]

CreatedIn ==
    [createUser |-> "users", createProject |-> "projects", createTask |-> "tasks",
     createTag |-> "tags", createComment |-> "comments"]

\* C10: for every entity type and every input, also one whose references name
\* no record, create returns a record with the input's fields unchanged, and
\* get of that record's id returns the same record.
C10_CreateGetRoundTrip ==
    last.op \in DOMAIN CreatedIn =>
        LET fields == last.args[1]
            made == last.ret
        IN  /\ made # Undefined
            /\ \A f \in DOMAIN fields : f \in DOMAIN made /\ made[f] = fields[f]
            /\ MapGet(db[CreatedIn[last.op]], made.id) = made

\* A comment on a task that does not exist was created under an id that a
\* comment with another taskId held, and is read back.
C10_Witness ==
    /\ last.op = "createComment"
    /\ getTask(db, last.ret.taskId) = Undefined
    /\ getComment(pre, last.ret.id) # Undefined
    /\ getComment(pre, last.ret.id).taskId # last.ret.taskId
    /\ getComment(db, last.ret.id) = last.ret

(***************************************************************************)
(* Properties of the delete_tag handler.  After a delete_tag request       *)
(* last.args is <<i, args>> and last.ret the invocation calls[i]; after    *)
(* the answer to a confirmation last.args is <<i, result>> and last.ret    *)
(* what the handler returned.                                              *)
(***************************************************************************)
AcceptConfirmed == [action |-> "accept", content |-> [confirm |-> TRUE]]

Answered == last.op = "elicit_response"
AnsweredTag == calls[last.args[1]].tagId
Answer == last.args[2]

IsError(response) == "isError" \in DOMAIN response /\ response.isError = TRUE
Payload(response) == response.content[1].text

\* C5: after a decline, get_tag still returns the tag that was there when the
\* answer came; after accept with confirm = true, get_tag reports the tag as
\* not found.
C5_DeclineKeepsAcceptRemoves ==
    Answered =>
        LET found == get_tag(db, [tagId |-> AnsweredTag])
        IN  /\ (Answer.action = "decline" /\ Has(pre.tags, AnsweredTag)) =>
                  /\ ~IsError(found)
                  /\ Payload(found).id = AnsweredTag
                  /\ Payload(found) = JSONstringify(getTag(pre, AnsweredTag))
            /\ Answer = AcceptConfirmed =>
                  /\ IsError(found)
                  /\ Payload(found) = <<"Tag not found">>

\* delete_tag was declined for a tag, invoked again on the same tag and then
\* confirmed: the first invocation reported the decline, the second the
\* deletion, and the tag is gone.
C5_Witness ==
    /\ Answered
    /\ last.args[1] = 2
    /\ Answer = AcceptConfirmed
    /\ calls[1].tagId = calls[2].tagId
    /\ calls[1].pc = "returned"
    /\ ~IsError(calls[1].result)
    /\ Payload(calls[1].result).message = <<"Tag deletion declined by user">>
    /\ ~IsError(last.ret)
    /\ Payload(last.ret).success = TRUE
    /\ Has(pre.tags, AnsweredTag)
    /\ getTag(db, AnsweredTag) = Undefined

\* C6: the handler changes nothing in the store up to its confirmation
\* request, and nothing when the answer is decline, cancel, or accept with
\* confirm false or missing.
C6_NoMutationWithoutConfirmation ==
    /\ last.op = "delete_tag" => db = pre
    /\ (Answered /\ Answer # AcceptConfirmed) => db = pre

\* accept with confirm = false was answered for a tag that a task carries:
\* tag and task are as before.
C6_Witness ==
    /\ Answered
    /\ Answer = [action |-> "accept", content |-> [confirm |-> FALSE]]
    /\ Has(db.tags, AnsweredTag)
    /\ getTasksByTag(db, AnsweredTag) # <<>>
    /\ db = pre

Succeeded(response) == ~IsError(response) /\ Payload(response).success = TRUE

\* C7 as stated: every invocation that found its tag and is answered accept
\* with confirm = true reports success.
C7_AcceptAlwaysSucceeds ==
    (Answered /\ Answer = AcceptConfirmed) => Succeeded(last.ret)

\* C7 as amended: such an invocation deletes the tag and reports success when
\* the tag is still in the store as the answer arrives; when it has been
\* deleted meanwhile, the invocation returns the error 'Tag deletion failed'.
C7_AcceptSucceedsWhileTagExists ==
    (Answered /\ Answer = AcceptConfirmed) =>
        IF Has(pre.tags, AnsweredTag)
        THEN /\ Succeeded(last.ret)
             /\ ~Has(db.tags, AnsweredTag)
             /\ getTasksByTag(db, AnsweredTag) = <<>>
        ELSE /\ IsError(last.ret)
             /\ Payload(last.ret) = <<"Tag deletion failed">>

\* Two invocations found the same tag; the second was confirmed and deleted
\* it, then the first was confirmed and failed.
C7_Witness ==
    /\ Answered
    /\ last.args[1] = 1
    /\ Answer = AcceptConfirmed
    /\ Len(calls) >= 2
    /\ calls[2].tagId = calls[1].tagId
    /\ calls[2].pc = "returned"
    /\ Succeeded(calls[2].result)
    /\ IsError(last.ret)

\* C8: an answer of decline or cancel yields a response with no error flag
\* and success: false, whose message says 'declined' for decline and
\* 'cancelled' for cancel.
C8_DeclineAndCancelReported ==
    (Answered /\ Answer.action \in {"decline", "cancel"}) =>
        /\ ~IsError(last.ret)
        /\ Payload(last.ret).success = FALSE
        /\ Payload(last.ret).message =
              IF Answer.action = "decline"
              THEN <<"Tag deletion declined by user">>
              ELSE <<"Tag deletion cancelled">>
        /\ <<"Tag deletion declined by user">> # <<"Tag deletion cancelled">>

\* One invocation was cancelled and then another was declined.
C8_Witness ==
    /\ Answered
    /\ Answer.action = "decline"
    /\ \E i \in 1..Len(calls) :
          /\ calls[i].pc = "returned"
          /\ ~IsError(calls[i].result)
          /\ Payload(calls[i].result).message = <<"Tag deletion cancelled">>
    /\ Payload(last.ret).message = <<"Tag deletion declined by user">>

\* The cascade of deleteTag(G) has run to its end in store d.
TagCascadeDone(d, G) == ~Has(d.tags, G) /\ getTasksByTag(d, G) = <<>>

\* The cascade of deleteTask(T) has run to its end in store d.
TaskCascadeDone(d, T) ==
    ~Has(d.tasks, T) /\ \A c \in Records(d.comments) : c.taskId # T

\* The cascade of deleteProject(P), begun in store d0, has run to its end in d.
ProjectCascadeDone(d0, d, P) ==
    /\ ~Has(d.projects, P)
    /\ \A t \in Records(d0.tasks) : t.projectId = P => TaskCascadeDone(d, t.id)

\* C9: in every state in which a handler can run, no cascade is half done:
\* a delete_tag handler suspended at its confirmation request has changed
\* nothing, and a handler that has returned has either left the store as it
\* was or completed its cascade.
C9_NoPartialCascade ==
    /\ last.op = "delete_tag" => db = pre
    /\ Answered => (db = pre \/ TagCascadeDone(db, AnsweredTag))
    /\ last.op = "delete_task" =>
          (db = pre \/ TaskCascadeDone(db, last.args[1].taskId))
    /\ last.op = "delete_project" =>
          (db = pre \/ ProjectCascadeDone(pre, db, last.args[1].projectId))

\* A project with its tasks and their comments was deleted while a
\* delete_tag handler was suspended on a tag those tasks carried.
C9_Witness ==
    /\ last.op = "delete_project"
    /\ db # pre
    /\ ProjectCascadeDone(pre, db, last.args[1].projectId)
    /\ \E i \in 1..Len(calls) :
          calls[i].pc = "elicit" /\ getTasksByTag(pre, calls[i].tagId) # <<>>

(***************************************************************************)
(* Properties of the store, continued.                                     *)
(***************************************************************************)
\* C11: the id a create call assigns is the id of no record in the store and
\* of no record that was in the store earlier, so a create overwrites no
\* record and hands out no id again.
C11_IdsNeverReused ==
    last.op \in DOMAIN CreatedIn =>
        /\ last.ret.id \notin issued
        /\ Len(db[CreatedIn[last.op]]) = Len(pre[CreatedIn[last.op]]) + 1

DeletedFrom ==
    [deleteUser |-> "users", deleteProject |-> "projects", deleteTask |-> "tasks",
     deleteTag |-> "tags", deleteComment |-> "comments"]

\* C12: for every entity type, delete(id) with an id that is not in that
\* entity's collection returns false and leaves that collection as it was;
\* so does a second delete of an id that was deleted.
C12_DeleteUnknownReturnsFalse ==
    (last.op \in DOMAIN DeletedFrom /\ ~Has(pre[DeletedFrom[last.op]], last.args[1])) =>
        /\ last.ret = FALSE
        /\ db[DeletedFrom[last.op]] = pre[DeletedFrom[last.op]]

\* A user that was in the store and has been deleted is deleted again
\* while another user is in the store.
C12_Witness ==
    /\ last.op = "deleteUser"
    /\ last.args[1] \in issued
    /\ ~Has(pre.users, last.args[1])
    /\ last.ret = FALSE
    /\ db.users # <<>>

UpdatedIn ==
    [updateUser |-> "users", updateProject |-> "projects", updateTask |-> "tasks",
     updateComment |-> "comments"]

\* Every record of collection coll but the one with this id, and every other
\* collection, is in store d as it is in store d0.
OthersUnchanged(d0, d, coll, id) ==
    /\ \A c \in DOMAIN d0 \ {coll} : d[c] = d0[c]
    /\ Len(d[coll]) = Len(d0[coll])
    /\ \A i \in 1..Len(d0[coll]) : d0[coll][i].id # id => d[coll][i] = d0[coll][i]

\* C13: updateTask, updateUser, updateProject and updateComment on an existing
\* record change only the fields present in the patch and updatedAt: every
\* other field, and id and createdAt in all cases, keep their values, the
\* fields of the patch other than updatedAt take the patch's values, and no
\* other record changes.
C13_UpdateChangesOnlyPatch ==
    (last.op \in DOMAIN UpdatedIn /\ Has(pre[UpdatedIn[last.op]], last.args[1])) =>
        LET coll == UpdatedIn[last.op]
            patch == last.args[2]
            old == MapGet(pre[coll], last.args[1])
            new == MapGet(db[coll], last.args[1])
        IN  /\ new # Undefined
            /\ last.ret = new
            /\ DOMAIN new = DOMAIN old
            /\ \A f \in DOMAIN old \ (DOMAIN patch \cup {"updatedAt"}) : new[f] = old[f]
            /\ \A f \in DOMAIN patch \ {"updatedAt"} : new[f] = patch[f]
            /\ new.id = old.id
            /\ new.createdAt = old.createdAt
            /\ OthersUnchanged(pre, db, coll, last.args[1])

\* The patch {status: 'done'} was applied to a task that was not done, later
\* than its last update: its status and updatedAt changed and nothing else.
C13_Witness ==
    /\ last.op = "updateTask"
    /\ last.args[2] = [status |-> "done"]
    /\ Has(pre.tasks, last.args[1])
    /\ getTask(pre, last.args[1]).status # "done"
    /\ getTask(db, last.args[1]).status = "done"
    /\ getTask(db, last.args[1]).updatedAt # getTask(pre, last.args[1]).updatedAt
    /\ \A f \in DOMAIN getTask(pre, last.args[1]) \ {"status", "updatedAt"} :
          getTask(db, last.args[1])[f] = getTask(pre, last.args[1])[f]

UpdateOps == DOMAIN UpdatedIn \cup {"updateTag"}

UpdatedColl(op) == IF op = "updateTag" THEN "tags" ELSE UpdatedIn[op]

\* C14: for every entity type, update(id, patch) with an id that is not in
\* the store returns null, creates no record and leaves every collection as
\* it was.
C14_UpdateUnknownReturnsNull ==
    (last.op \in UpdateOps /\ ~Has(pre[UpdatedColl(last.op)], last.args[1])) =>
        /\ last.ret = NULL
        /\ ~Has(db[UpdatedColl(last.op)], last.args[1])
        /\ db = pre

\* A user that does not exist was updated, after a comment had been made.
C14_Witness ==
    /\ last.op = "updateUser"
    /\ last.args[1] = Ghost("user")
    /\ last.ret = NULL
    /\ getUser(db, Ghost("user")) = Undefined
    /\ Len(db.comments) > 1

Stamped == {"users", "projects", "tasks", "comments"}

\* C15: createdAt of a record never changes; a successful update of a user,
\* project, task or comment sets updatedAt to the time of the update, so
\* updatedAt never decreases and createdAt <= updatedAt in every record;
\* updateTag gives a tag no updatedAt field.
C15_TimestampsMaintained ==
    /\ \A coll \in DOMAIN pre : \A r \in Records(pre[coll]) :
          Has(db[coll], r.id) =>
              /\ MapGet(db[coll], r.id).createdAt = r.createdAt
              /\ coll \in Stamped => MapGet(db[coll], r.id).updatedAt >= r.updatedAt
    /\ (last.op \in DOMAIN UpdatedIn /\ last.ret # NULL) =>
          /\ last.ret.updatedAt = now
          /\ MapGet(db[UpdatedIn[last.op]], last.args[1]).updatedAt = now
    /\ \A coll \in Stamped : \A r \in Records(db[coll]) : r.createdAt <= r.updatedAt
    /\ \A g \in Records(db.tags) : "updatedAt" \notin DOMAIN g
    /\ (last.op = "updateTag" /\ last.ret # NULL) => "updatedAt" \notin DOMAIN last.ret

\* A task was updated with a patch that names an earlier updatedAt, after
\* the clock had moved since its last update by the store.
C15_Witness ==
    /\ last.op = "updateTask"
    /\ last.ret # NULL
    /\ "updatedAt" \in DOMAIN last.args[2]
    /\ last.args[2].updatedAt < getTask(pre, last.args[1]).updatedAt
    /\ getTask(pre, last.args[1]).updatedAt >= StartTime
    /\ last.ret.updatedAt > getTask(pre, last.args[1]).updatedAt

(***************************************************************************)
(* Properties of the update_task handler.  After an update_task request    *)
(* last.args is <<args>> and last.ret what the handler returned.           *)
(***************************************************************************)
\* The request leaves field f out or carries it as undefined.
Omitted(args, f) == f \notin DOMAIN args \/ args[f] = UndefinedField

\* The request carries field f with the value null.
GivenNull(args, f) == f \in DOMAIN args /\ args[f] = NULL

\* C16: update_task on an existing task keeps the stored value of every
\* field that the request omits (leaves out or carries as undefined) and
\* forwards no such field to the store; assigneeId: null and dueDate: null
\* set the stored field to null; a dueDate string that is present is stored
\* as the date it denotes.
C16_OmissionVersusNull ==
    (last.op = "update_task" /\ Has(pre.tasks, last.args[1].taskId)) =>
        LET args == last.args[1]
            old == getTask(pre, args.taskId)
            new == getTask(db, args.taskId)
        IN  /\ DOMAIN new = DOMAIN old
            /\ \A f \in DOMAIN old \ {"updatedAt"} : Omitted(args, f) => new[f] = old[f]
            /\ GivenNull(args, "assigneeId") => new.assigneeId = NULL
            /\ GivenNull(args, "dueDate") => new.dueDate = NULL
            /\ \A t \in 0..(now + 10) :
                  (~Omitted(args, "dueDate") /\ args.dueDate = toISOString(t)) =>
                      new.dueDate = <<t>>
            /\ ~IsError(last.ret)
            /\ Payload(last.ret) = JSONstringify(new)

\* A request with assigneeId and dueDate undefined and tags given was handled
\* for a task whose assignee and due date had been set to null by earlier
\* requests: both are still null, and the tags are the request's.
C16_Witness ==
    /\ last.op = "update_task"
    /\ Has(pre.tasks, last.args[1].taskId)
    /\ "assigneeId" \in DOMAIN last.args[1]
    /\ last.args[1].assigneeId = UndefinedField
    /\ getTask(pre, last.args[1].taskId).assigneeId = NULL
    /\ getTask(db, last.args[1].taskId).assigneeId = NULL
    /\ getTask(db, last.args[1].taskId).dueDate = NULL
    /\ getTask(db, last.args[1].taskId).tags = last.args[1].tags
    /\ getTask(initializeSampleData, last.args[1].taskId).dueDate # NULL

(***************************************************************************)
(* Properties of the queries: each holds of the store in every state.      *)
(***************************************************************************)
\* The sequence result lists exactly the records of the set S, each once.
ExactlyThose(result, S) == Records(result) = S /\ Len(result) = Cardinality(S)

TaskStatuses == {"todo", "in-progress", "review", "done"}

\* C17: in every state getTasksByTag(g), getTasksByProject(p),
\* getTasksByAssignee(a) and getTasksByStatus(s) return exactly the stored
\* tasks whose tags contain g, whose projectId is p, whose assigneeId is a,
\* whose status is s (none when no task matches), and getProjectsByOwner(o)
\* exactly the stored projects whose ownerId is o.
C17_FiltersReturnExactMatches ==
    /\ \A g \in TagRefs \cup {Tag2, Ghost("tag")} :
          ExactlyThose(getTasksByTag(db, g),
                       {t \in Records(db.tasks) : \E i \in 1..Len(t.tags) : t.tags[i] = g})
    /\ \A p \in ProjectRefs :
          ExactlyThose(getTasksByProject(db, p),
                       {t \in Records(db.tasks) : t.projectId = p})
    /\ \A a \in UserRefs \cup {User2, EmptyString} :
          ExactlyThose(getTasksByAssignee(db, a),
                       {t \in Records(db.tasks) : t.assigneeId = a})
    /\ \A s \in TaskStatuses :
          ExactlyThose(getTasksByStatus(db, s),
                       {t \in Records(db.tasks) : t.status = s})
    /\ \A o \in UserRefs \cup {User2} :
          ExactlyThose(getProjectsByOwner(db, o),
                       {p \in Records(db.projects) : p.ownerId = o})

\* Three tasks are stored: two carry the tag 'bug' (one of them twice) and
\* two are assigned to the same user, none is done and none is in the
\* project that does not exist.
C17_Witness ==
    /\ Len(db.tasks) = 3
    /\ Len(getTasksByTag(db, Tag3)) = 2
    /\ Len(getTasksByAssignee(db, User2)) = 2
    /\ Len(getTasksByProject(db, Project1)) = 3
    /\ getTasksByStatus(db, "done") = <<>>
    /\ getTasksByProject(db, Ghost("project")) = <<>>
    /\ Len(getTasksByStatus(db, "todo")) = 2

\* createdAt does not decrease along the sequence s.
AscendingByCreatedAt(s) ==
    \A i, j \in 1..Len(s) : i < j => s[i].createdAt <= s[j].createdAt

\* C18: in every state getCommentsByTask(t) and getCommentsByUser(u) return
\* exactly the stored comments with that taskId / userId, in an order in
\* which createdAt does not decrease.
C18_CommentsSortedByCreatedAt ==
    /\ \A t \in TaskRefs :
          /\ ExactlyThose(getCommentsByTask(db, t),
                          {c \in Records(db.comments) : c.taskId = t})
          /\ AscendingByCreatedAt(getCommentsByTask(db, t))
    /\ \A u \in UserRefs \cup {User2} :
          /\ ExactlyThose(getCommentsByUser(db, u),
                          {c \in Records(db.comments) : c.userId = u})
          /\ AscendingByCreatedAt(getCommentsByUser(db, u))

\* Three comments of one user are stored: two of one task, made at different
\* times, and one of another task.
C18_Witness ==
    /\ Len(db.comments) = 3
    /\ Len(getCommentsByTask(db, Task1)) = 2
    /\ getCommentsByTask(db, Task1)[1].createdAt < getCommentsByTask(db, Task1)[2].createdAt
    /\ Len(getCommentsByUser(db, User1)) = 3
    /\ getCommentsByUser(db, User2) = <<>>

\* C19: getTaskStatistics() returns total, the number of stored tasks;
\* byStatus and byPriority, whose keys are the statuses / priorities that
\* some task has, each with the number of tasks that have it; and overdue,
\* the number of tasks whose dueDate is not null and strictly before the
\* current time and whose status is not done.
C19_TaskStatisticsCount ==
    LET stats == getTaskStatistics(db, now)
        T == Records(db.tasks)
    IN  /\ stats.total = Cardinality(T)
        /\ DOMAIN stats.byStatus = {t.status : t \in T}
        /\ \A k \in DOMAIN stats.byStatus :
              stats.byStatus[k] = Cardinality({t \in T : t.status = k})
        /\ DOMAIN stats.byPriority = {t.priority : t \in T}
        /\ \A k \in DOMAIN stats.byPriority :
              stats.byPriority[k] = Cardinality({t \in T : t.priority = k})
        /\ stats.overdue =
              Cardinality({t \in T : /\ t.dueDate # NULL
                                     /\ t.dueDate[1] < now
                                     /\ t.status # "done"})

\* Of two tasks past their due dates one is done: one task is overdue, and
\* byStatus has no entry for the status the done task had before.
C19_Witness ==
    /\ Len(db.tasks) = 2
    /\ \A t \in Records(db.tasks) : t.dueDate # NULL /\ t.dueDate[1] < now
    /\ \E t \in Records(db.tasks) : t.status = "done"
    /\ getTaskStatistics(db, now).overdue = 1
    /\ getTaskStatistics(db, now).byStatus = [done |-> 1, todo |-> 1]
    /\ "in-progress" \notin DOMAIN getTaskStatistics(db, now).byStatus

\* getProjectStatistics(p) counts the tasks with projectId p, those of them
\* that are done and those in progress, and lists the assignees of the set
\* members, each once.
ProjectStatisticsAre(p, T, members) ==
    LET stats == getProjectStatistics(db, p)
    IN  /\ stats.totalTasks = Cardinality(T)
        /\ stats.completedTasks = Cardinality({t \in T : t.status = "done"})
        /\ stats.inProgressTasks = Cardinality({t \in T : t.status = "in-progress"})
        /\ {stats.teamMembers[i] : i \in 1..Len(stats.teamMembers)} = members
        /\ Len(stats.teamMembers) = Cardinality(members)

HasThrown(response) == "thrown" \in DOMAIN response

\* The id that the variables of a resource's URI name: the variable, or the
\* first element of an array; NULL when there is none or it is empty.
NamedId(e, variables) ==
    LET f == Entities[e].idField
    IN  IF f \notin DOMAIN variables THEN NULL
        ELSE IF variables[f] = EmptyString \/ variables[f] = <<"array">> THEN NULL
        ELSE IF variables[f][1] = "array" THEN variables[f][2]
        ELSE variables[f]

SameLetter(a, b) ==
    \/ a = b
    \/ \E pair \in {<<"U", "u">>, <<"S", "s">>, <<"E", "e">>, <<"R", "r">>,
                    <<"X", "x">>} :
          {a, b} = {pair[1], pair[2]}

\* C23: completion for the userId argument of get_user_details returns, with
\* hasMore false, exactly the ids of the users in the store at the time of
\* the request whose id starts with the typed value, letters compared
\* whatever their case; for the empty value, the ids of all users.
C23_CompletionMatchesPrefix ==
    (/\ last.op = "complete"
     /\ last.args[1].ref = [type |-> "ref/prompt", name |-> "get_user_details"]
     /\ last.args[1].argument.name = "userId") =>
        LET typed == last.args[1].argument.value
            values == last.ret.completion.values
            matches == {id \in Keys(db.users) :
                          /\ Len(typed) <= Len(idString(id))
                          /\ \A i \in 1..Len(typed) :
                                SameLetter(idString(id)[i], typed[i])}
        IN  /\ last.ret.completion.hasMore = FALSE
            /\ {values[i] : i \in 1..Len(values)} = matches
            /\ Len(values) = Cardinality(matches)
            /\ typed = <<>> => Len(values) = Len(db.users)

\* 'USER-' was typed after one of the users had been deleted: the one value
\* is the id of the user that is left.
C23_Witness ==
    /\ last.op = "complete"
    /\ last.args[1].argument.value = <<"U", "S", "E", "R", "-">>
    /\ \E id \in issued : id[1] = "user" /\ ~Has(db.users, id)
    /\ Len(last.ret.completion.values) = 1
    /\ Has(db.users, last.ret.completion.values[1])

\* C28: in every state the 'All Comments' resource, the listing of
\* 'Comment by ID' and its commentId completion contain exactly the comments
\* of the store's comment collection, each once, also those whose taskId
\* names no stored task.
C28_AllCommentsListed ==
    last.op = "comment_resources" =>
        LET text == last.ret.read.contents[1].text
            resources == last.ret.list.resources
            ids == last.ret.complete
        IN  /\ Len(text) = Len(db.comments)
            /\ {text[i] : i \in 1..Len(text)}
                  = {JSONstringify(c) : c \in Records(db.comments)}
            /\ Len(resources) = Len(db.comments)
            /\ {resources[i].uri[2] : i \in 1..Len(resources)} = Keys(db.comments)
            /\ Len(ids) = Len(db.comments)
            /\ {ids[i] : i \in 1..Len(ids)} = Keys(db.comments)

(* Properties of input validation.                                         *)
(***************************************************************************)
\* C22: a request to create_task, update_task or delete_task that the tool's
\* schema does not accept makes the handler throw a validation failure, and
\* every collection of the store is after the call as it was before; a
\* request the schema accepts does not make the handler throw.
C22_InvalidInputRejected ==
    last.op \in DOMAIN InvalidArgs =>
        IF last.args[1] \in InvalidArgs[last.op]
        THEN /\ HasThrown(last.ret)
             /\ last.ret.thrown = <<"Validation failed">>
             /\ \A coll \in DOMAIN db : db[coll] = pre[coll]
        ELSE ~HasThrown(last.ret)

\* A create_task request with a status outside the enumeration was rejected
\* after a valid request had created a task: the store holds that task and
\* no other new one.
C22_Witness ==
    /\ last.op = "create_task"
    /\ last.args[1].status = "bogus"
    /\ HasThrown(last.ret)
    /\ Len(db.tasks) = 3
    /\ db = pre

(***************************************************************************)
(* Properties of the store, continued.                                     *)
(***************************************************************************)
\* C24: before any operation the store holds exactly 2 users, 1 project,
\* 2 tasks, 3 tags and 1 comment, each under its own id, and every reference
\* resolves: the project's ownerId, each task's projectId, assigneeId and
\* tag ids, the comment's taskId and userId.
C24_SeedData ==
    last.op = "init" =>
        /\ Len(db.users) = 2 /\ Cardinality(Keys(db.users)) = 2
        /\ Len(db.projects) = 1
        /\ Len(db.tasks) = 2 /\ Cardinality(Keys(db.tasks)) = 2
        /\ Len(db.tags) = 3 /\ Cardinality(Keys(db.tags)) = 3
        /\ Len(db.comments) = 1
        /\ \A p \in Records(db.projects) : getUser(db, p.ownerId) # Undefined
        /\ \A t \in Records(db.tasks) :
              /\ getProject(db, t.projectId) # Undefined
              /\ t.assigneeId # NULL /\ getUser(db, t.assigneeId) # Undefined
              /\ \A i \in 1..Len(t.tags) : getTag(db, t.tags[i]) # Undefined
        /\ \A c \in Records(db.comments) :
              /\ getTask(db, c.taskId) # Undefined
              /\ getUser(db, c.userId) # Undefined

\* The store as the process starts: no operation has run, the second task
\* carries two tags and the comment is on the first task.
C24_Witness ==
    /\ last.op = "init"
    /\ nOps = 0
    /\ getTask(db, Task2).tags = <<Tag2, Tag3>>
    /\ getComment(db, Comment1).taskId = Task1
    /\ getProject(db, Project1).ownerId = User1

\* C25: within deleteProject(P) the removals happen in the order comments,
\* then their task, then the project: in the store after each removal, a
\* task of P that the call has removed has no comment left and, once the
\* call has removed P, no task of P is left; the last of these stores is the
\* one the call leaves.
C25_CascadeOrder ==
    last.op = "deleteProject" =>
        LET P == last.args[1]
            steps == deleteProjectSteps(pre, P)
            tasksOfP == {t.id : t \in {x \in Records(pre.tasks) : x.projectId = P}}
        IN  /\ steps[Len(steps)] = db
            /\ \A k \in 1..Len(steps) :
                  /\ \A T \in tasksOfP :
                        ~Has(steps[k].tasks, T) =>
                            \A c \in Records(steps[k].comments) : c.taskId # T
                  /\ (Has(pre.projects, P) /\ ~Has(steps[k].projects, P)) =>
                        \A t \in Records(steps[k].tasks) : t.projectId # P
                  /\ Len(steps[k].comments) + Len(steps[k].tasks)
                        + Len(steps[k].projects) + k
                     = Len(pre.comments) + Len(pre.tasks) + Len(pre.projects)
                        + (IF k = Len(steps) /\ ~Has(pre.projects, P) THEN 1 ELSE 0)

\* A project with two tasks and two comments was deleted in five removals.
C25_Witness ==
    /\ last.op = "deleteProject"
    /\ last.ret = TRUE
    /\ Len(pre.comments) = 2
    /\ Len(deleteProjectSteps(pre, last.args[1])) = 5
    /\ db.tasks = <<>>
    /\ db.comments = <<>>

\* C26: a deleteProject, deleteTask or deleteTag call that returns false (its
\* id is not in the respective collection) leaves the users, projects, tasks,
\* tags and comments as they were before the call, also when tasks or
\* comments hold that id.
C26_FalseDeleteChangesNothing ==
    (last.op \in {"deleteProject", "deleteTask", "deleteTag"} /\ last.ret = FALSE) =>
        /\ ~Has(pre[DeletedFrom[last.op]], last.args[1])
        /\ \A coll \in DOMAIN pre : db[coll] = pre[coll]

\* C27: from the sample data, after any sequence of creates, updates and
\* deletes in which every task is created with the projectId of a project
\* stored at that moment and every comment with the taskId of a task stored
\* at that moment, and no update changes a projectId or a taskId, the
\* projectId of every stored task names a stored project and the taskId of
\* every stored comment names a stored task.
C27_ReferencesResolve ==
    /\ \A t \in Records(db.tasks) : getProject(db, t.projectId) # Undefined
    /\ \A c \in Records(db.comments) : getTask(db, c.taskId) # Undefined

\* The project of the sample data was deleted after a third task had been
\* created in it: its three tasks and their comment are gone with it.
C27_Witness ==
    /\ last.op = "deleteProject"
    /\ last.ret = TRUE
    /\ Len(pre.tasks) = 3
    /\ \A t \in Records(pre.tasks) : t.projectId = last.args[1]
    /\ pre.comments # <<>>
    /\ db.tasks = <<>>
    /\ db.comments = <<>>


(***************************************************************************)
(* Properties of delete_tag, continued.                                    *)
(***************************************************************************)
\* Invocation i of delete_tag is suspended at its confirmation request.
Suspended(cs, i) == i \in 1..Len(cs) /\ cs[i].pc = "elicit"

\* C29: a delete_tag invocation whose tagId names no stored tag returns the
\* error-flagged result 'Tag not found', issues no confirmation request and
\* leaves the store as it was; an invocation whose tag is stored at the time
\* of the call issues its confirmation request in that step; and no
\* invocation issues a confirmation request at any later step, so that each
\* invocation that found its tag issues exactly one.
C29_NotFoundWithoutConfirmation ==
    [][
        /\ \A i \in 1..Len(calls') :
              (Suspended(calls', i) /\ ~Suspended(calls, i)) =>
                  /\ i = Len(calls) + 1
                  /\ last'.op = "delete_tag"
                  /\ last'.args[1] = i
        /\ last'.op = "delete_tag" =>
              LET i == last'.args[1]
                  tagId == last'.args[2].tagId
              IN  /\ Len(calls') = Len(calls) + 1
                  /\ i = Len(calls')
                  /\ IF Has(db.tags, tagId)
                     THEN /\ Suspended(calls', i)
                          /\ calls'[i].tag = getTag(db, tagId)
                     ELSE /\ calls'[i].pc = "returned"
                          /\ IsError(calls'[i].result)
                          /\ Payload(calls'[i].result) = <<"Tag not found">>
                          /\ db' = db
    ]_vars

\* A confirmed invocation deleted a tag; a second invocation on the same tag
\* returned 'Tag not found' at once and left the store alone.
C29_Witness ==
    /\ last.op = "delete_tag"
    /\ last.args[1] = 2
    /\ calls[1].tagId = calls[2].tagId
    /\ calls[1].pc = "returned"
    /\ Succeeded(calls[1].result)
    /\ calls[2].pc = "returned"
    /\ IsError(calls[2].result)
    /\ Payload(calls[2].result) = <<"Tag not found">>
    /\ db = pre

\* The answer to invocation i's confirmation request has been delivered and
\* its handler has not gone on yet.
Delivered(i) == i \in 1..Len(calls) /\ calls[i].pc = "answered"

\* Invocation i has returned its result.
Returned(i) == i \in 1..Len(calls) /\ calls[i].pc = "returned"

\* A step taken while invocation i is suspended either is the delivery of
\* the answer to its request, which returns nothing and leaves the store as
\* it was, or leaves the invocation suspended as it is; the store then
\* changes only through another request's handler.
SuspendedUntilDelivery ==
    \A i \in 1..Len(calls) :
        Suspended(calls, i) =>
            IF last'.op = "elicit_deliver" /\ last'.args[1] = i
            THEN /\ calls'[i].pc = "answered"
                 /\ db' = db
            ELSE /\ calls'[i] = calls[i]
                 /\ db' # db =>
                       \/ last'.op = "delete_task"
                       \/ last'.op = "elicit_response" /\ last'.args[1] # i

\* While an invocation is suspended, a request to another tool that the run
\* still has room for is handled, to its end, in the next step.
OthersRunMeanwhile ==
    (\E i \in 1..Len(calls) : Suspended(calls, i)) =>
        /\ nOps < MaxRequests => ENABLED DeleteTaskTool
        /\ (nOps < MaxRequests /\ Len(calls) < MaxCalls) => ENABLED DeleteTagCall

\* A handler that was answered leaves that state only by going on after its
\* await, and then it has returned its result.
DeliveredUntilReturn ==
    \A i \in 1..Len(calls) :
        (Delivered(i) /\ calls'[i] # calls[i]) =>
            /\ calls'[i].pc = "returned"
            /\ last'.op = "elicit_response"
            /\ last'.args[1] = i
            /\ calls'[i].result = last'.ret

\* C30: every delete_tag invocation to whose confirmation request an answer
\* (accept, decline or cancel) is delivered eventually returns its result:
\* whenever some handlers are answered and have not gone on, a state follows
\* in which none is, and an answered handler leaves that state only by
\* returning.  While no answer is delivered the invocation stays suspended,
\* returns nothing and changes nothing in the store, however many steps that
\* lasts (no step but the delivery ends the suspension); and the other
\* requests made meanwhile are handled to their end.
C30_ReturnsOnceAnswered ==
    /\ (\E i \in 1..MaxCalls : Delivered(i)) ~> (\A i \in 1..MaxCalls : ~Delivered(i))
    /\ [][SuspendedUntilDelivery /\ DeliveredUntilReturn]_vars
    /\ []OthersRunMeanwhile

\* One invocation was declined and has returned; the other is still
\* suspended, and a delete_task request made meanwhile deleted its task.
C30_Witness ==
    /\ last.op = "delete_task"
    /\ db # pre
    /\ Len(calls) = 2
    /\ Returned(1)
    /\ ~IsError(calls[1].result)
    /\ Payload(calls[1].result).message = <<"Tag deletion declined by user">>
    /\ Suspended(calls, 2)

====
